---- MODULE Spec2Model ----
(***************************************************************************)
(* Model of OpenCommand.execute (src/commands/browser/open.ts): the        *)
(* browser session lifecycle of "vibe-tools browser open", together with   *)
(* the pure helpers parseTimeDuration and parseWaitParameter.              *)
(*                                                                         *)
(* Strings that the code inspects (wait directives, page URLs) are         *)
(* sequences of one-character strings.  An optional value is <<>> when     *)
(* undefined and <<v>> when set.                                           *)
(***************************************************************************)
EXTENDS Integers, Sequences, FiniteSets, TLC

\* ------------------------------------------------------------------ bounds
MaxDiag == 1
MaxPages == 2
MaxLen == 3

\* --------------------------------------------------------- string helpers
Range(s) == {s[i] : i \in 1..Len(s)}

Digits == {"0", "1", "2", "3", "4", "5", "6", "7", "8", "9"}

DigitVal(c) ==
  CASE c = "0" -> 0 [] c = "1" -> 1 [] c = "2" -> 2 [] c = "3" -> 3
    [] c = "4" -> 4 [] c = "5" -> 5 [] c = "6" -> 6 [] c = "7" -> 7
    [] c = "8" -> 8 [] c = "9" -> 9

StartsWith(s, p) == Len(s) >= Len(p) /\ SubSeq(s, 1, Len(p)) = p

Slice(s, n) == SubSeq(s, n + 1, Len(s))

IndexOf(s, c) ==
  IF \E i \in 1..Len(s) : s[i] = c
  THEN (CHOOSE i \in 1..Len(s) : s[i] = c /\ \A j \in 1..(i - 1) : s[j] /= c) - 1
  ELSE -1

RECURSIVE parseInt(_)
parseInt(ds) ==
  IF ds = <<>> THEN 0
  ELSE parseInt(SubSeq(ds, 1, Len(ds) - 1)) * 10 + DigitVal(ds[Len(ds)])

AllDigits(ds) == ds /= <<>> /\ \A i \in 1..Len(ds) : ds[i] \in Digits

\* ----------------------------------------------------- parseTimeDuration
\* /^(\d+)(ms|s|m)$/ ; the result is <<>> for null and <<ms>> otherwise.
TimeUnit(d) ==
  LET n == Len(d) IN
  IF n >= 3 /\ d[n - 1] = "m" /\ d[n] = "s" /\ AllDigits(SubSeq(d, 1, n - 2))
    THEN <<"ms", SubSeq(d, 1, n - 2)>>
  ELSE IF n >= 2 /\ d[n] = "s" /\ AllDigits(SubSeq(d, 1, n - 1))
    THEN <<"s", SubSeq(d, 1, n - 1)>>
  ELSE IF n >= 2 /\ d[n] = "m" /\ AllDigits(SubSeq(d, 1, n - 1))
    THEN <<"m", SubSeq(d, 1, n - 1)>>
  ELSE <<>>

parseTimeDuration(d) ==
  LET match == TimeUnit(d) IN
  IF match = <<>> THEN <<>>
  ELSE LET numValue == parseInt(match[2]) IN
       CASE match[1] = "ms" -> <<numValue>>
         [] match[1] = "s" -> <<numValue * 1000>>
         [] match[1] = "m" -> <<numValue * 60 * 1000>>

\* ---------------------------------------------------- parseWaitParameter
TimePrefix == <<"t", "i", "m", "e", ":">>
SelectorPrefix == <<"s", "e", "l", "e", "c", "t", "o", "r", ":">>
CssPrefix == <<"c", "s", "s", ":">>

\* type "throw" stands for the Error thrown at line 43; ms is 0 for selectors
\* and selector is <<>> for time directives.
WaitResult(t, ms, sel) == [type |-> t, ms |-> ms, selector |-> sel]

\* mutant of parseWaitParameter: the 'css:' prefix is not recognised
parseWaitParameterNoCss(wait) ==
  IF StartsWith(wait, TimePrefix)
  THEN LET duration == parseTimeDuration(Slice(wait, 5)) IN
       IF duration = <<>> THEN WaitResult("throw", 0, wait)
       ELSE WaitResult("time", duration[1], <<>>)
  ELSE IF StartsWith(wait, SelectorPrefix)
  THEN WaitResult("selector", 0, Slice(wait, IndexOf(wait, ":") + 1))
  ELSE LET duration == parseTimeDuration(wait) IN
       IF duration /= <<>> THEN WaitResult("time", duration[1], <<>>)
       ELSE WaitResult("selector", 0, wait)

parseWaitParameter(wait) ==
  IF StartsWith(wait, TimePrefix)
  THEN LET duration == parseTimeDuration(Slice(wait, 5)) IN
       IF duration = <<>> THEN WaitResult("throw", 0, wait)
       ELSE WaitResult("time", duration[1], <<>>)
  ELSE IF StartsWith(wait, SelectorPrefix) \/ StartsWith(wait, CssPrefix)
  THEN WaitResult("selector", 0,
                  IF IndexOf(wait, ":") >= 0
                  THEN Slice(wait, IndexOf(wait, ":") + 1) ELSE wait)
  ELSE LET duration == parseTimeDuration(wait) IN
       IF duration /= <<>> THEN WaitResult("time", duration[1], <<>>)
       ELSE IF StartsWith(wait, <<"#">>) \/ StartsWith(wait, <<".">>)
       THEN WaitResult("selector", 0, wait)
       ELSE WaitResult("selector", 0, wait)


\* ------------------------------------------------------------- the request
Coalesce(a, b) == IF a /= <<>> THEN a ELSE b

DefaultTimeout == 30000

ExampleUrl == "https://example.com"

\* (options.url, query) pairs: the query only matters when options.url is unset
UrlInputs ==
  { <<<<>>, <<>>>>, <<<<>>, <<ExampleUrl>>>>, <<<<ExampleUrl>>, <<>>>>,
    <<<<"current">>, <<>>>>, <<<<"reload-current">>, <<>>>> }

WaitTime2s == <<"t", "i", "m", "e", ":", "2", "s">>
WaitTimeBad == <<"t", "i", "m", "e", ":", "x">>
WaitCss == <<"c", "s", "s", ":", "#", "a">>
WaitBareMs == <<"5", "m", "s">>
WaitInputs == {<<>>, <<WaitTime2s>>, <<WaitTimeBad>>, <<WaitCss>>, <<WaitBareMs>>}

\* options.viewport after split('x').map(Number): a pair of numbers, each <<n>>
\* or <<>> for NaN
ViewportInputs == {<<>>, <<<<<<1280>>, <<720>>>>>>, <<<<<<>>, <<720>>>>>>}

\* !isNaN(width) && !isNaN(height)
ViewportValid(v) == v[1] /= <<>> /\ v[2] /= <<>>

Requests ==
  [ urlq : UrlInputs, connectTo : {<<>>, <<9222>>}, video : BOOLEAN,
    html : {<<>>, <<TRUE>>}, screenshot : {<<>>, <<"/tmp/out.png">>},
    wait : WaitInputs, viewport : ViewportInputs, timeout : {<<>>, <<5000>>} ]

\* this.config.browser: nothing configured, or a timeout and a default viewport
Configs ==
  { [timeout |-> <<>>, defaultViewport |-> <<>>],
    [timeout |-> <<10000>>, defaultViewport |-> <<<<<<800>>, <<600>>>>>>] }

\* URLs of the pages an existing Chrome may have open
ChromeNewTab == <<"c", "h", "r", "o", "m", "e", ":", "/", "/", "n">>
WebPage == <<"h", "t", "t", "p", ":", "/", "/", "a">>
ChromeScheme == <<"c", "h", "r", "o", "m", "e", ":", "/", "/">>

RECURSIVE SeqsUpTo(_, _)
SeqsUpTo(S, n) ==
  IF n = 0 THEN {<<>>}
  ELSE LET shorter == SeqsUpTo(S, n - 1) IN
       shorter \cup {Append(s, x) : s \in shorter, x \in S}

PageLists == SeqsUpTo({ChromeNewTab, WebPage}, MaxPages)

\* ------------------------------------------------------------------- state
VARIABLES
  pc,             \* position of the generator inside execute
  opt,            \* options (the request)
  cfg,            \* this.config.browser
  url,            \* const url (line 92), <<>> before it is bound
  browser,        \* "undefined" | "launched" | "connected"
  context,        \* "undefined" | "existing" | "new"
  pages,          \* URLs of context.pages() (connect mode)
  page,           \* <<"null", 0>> | <<"new", 0>> | <<"existing", i>>
  videoPath,      \* <<>> or <<path>>
  waitConfig,     \* result of parseWaitParameter, <<>> before
  timeouts,       \* the array of line 75
  pendingTimers,  \* timer handles the runtime has scheduled and not yet fired or cleared
  calls,          \* collaborator calls made so far, in order
  emitted,        \* messages yielded so far, in order
  failed          \* steps that threw

vars == <<pc, opt, cfg, url, browser, context, pages, page, videoPath, waitConfig,
          timeouts, pendingTimers, calls, emitted, failed>>

session == <<browser, context, pages, page, videoPath>>
request == <<opt, cfg>>
timers == <<timeouts, pendingTimers>>

Msg(label, cause) == <<label, cause>>
Call(op, arg) == <<op, arg>>

\* mutant of EffectiveTimeout: the configured timeout wins over the request's
EffectiveTimeoutConfigFirst ==
  Coalesce(cfg.timeout, Coalesce(opt.timeout, <<DefaultTimeout>>))

\* options.timeout ?? this.config.browser?.timeout ?? 30000
EffectiveTimeout == Coalesce(opt.timeout, Coalesce(cfg.timeout, <<DefaultTimeout>>))

\* const timeouts = []  (a fresh array for every execution)
NewTimeouts == <<>>

Init ==
  /\ pc = "ensurePlaywright"
  /\ opt \in Requests
  /\ cfg \in Configs
  /\ url = <<>>
  /\ browser = "undefined"
  /\ context = "undefined"
  /\ pages = <<>>
  /\ page = <<"null", 0>>
  /\ videoPath = <<>>
  /\ waitConfig = <<>>
  /\ timeouts = NewTimeouts
  /\ pendingTimers = {}
  /\ calls = <<>>
  /\ emitted = <<>>
  /\ failed = {}

\* clearTimeout(t) for every t of ts
clearTimeout(pending, ts) == pending \ Range(ts)

\* An error thrown inside the inner try: the catch of lines 288-294
Caught(step, em, cs) ==
  /\ calls' = cs
  /\ failed' = failed \cup {step}
  /\ pendingTimers' = clearTimeout(pendingTimers, timeouts)
  /\ timeouts' = <<>>
  /\ emitted' = Append(em, Msg("Browser command error", step))
  /\ pc' = "finally"

\* mutant of Escaped: no outer catch, the error is thrown to the consumer
EscapedToConsumer(step, em, cs) ==
  /\ calls' = cs
  /\ failed' = failed \cup {step}
  /\ emitted' = em
  /\ pc' = "thrown"

\* An error thrown outside the inner try/catch: the catch of lines 315-317
Escaped(step, em, cs) ==
  /\ calls' = cs
  /\ failed' = failed \cup {step}
  /\ emitted' = Append(em, Msg("Playwright check error", step))
  /\ pc' = "done"

\* A step of the inner try that succeeded
Proceed(next, em, cs) ==
  /\ calls' = cs
  /\ emitted' = em
  /\ pc' = next
  /\ UNCHANGED <<failed, timers>>

\* -------------------------------------------------------------- pre-checks
EnsurePlaywright ==
  /\ pc = "ensurePlaywright"
  /\ LET cs == Append(calls, Call("ensurePlaywright", <<>>)) IN
     \/ /\ pc' = "ensureBrowsers"
        /\ calls' = cs
        /\ UNCHANGED <<emitted, failed>>
     \/ Escaped("ensurePlaywright", emitted, cs)
  /\ UNCHANGED <<request, url, session, waitConfig, timers>>

\* mutant of EnsurePlaywrightBrowsers: a failed check is swallowed
EnsurePlaywrightBrowsersSwallowed ==
  /\ pc = "ensureBrowsers"
  /\ calls' = Append(calls, Call("ensurePlaywrightBrowsers", <<>>))
  /\ pc' = "options"
  /\ \/ UNCHANGED failed
     \/ failed' = failed \cup {"ensurePlaywrightBrowsers"}
  /\ UNCHANGED <<request, url, session, waitConfig, timers, emitted>>

\* line 80
EnsurePlaywrightBrowsers ==
  /\ pc = "ensureBrowsers"
  /\ LET cs == Append(calls, Call("ensurePlaywrightBrowsers", <<>>)) IN
     \/ /\ pc' = "options"
        /\ calls' = cs
        /\ UNCHANGED <<emitted, failed>>
     \/ Escaped("ensurePlaywrightBrowsers", emitted, cs)
  /\ UNCHANGED <<request, url, session, waitConfig, timers>>

\* mutant of IncompatibleOptions: the test reads videoPath, still unset here
IncompatibleOptionsVideoPath == opt.connectTo /= <<>> /\ videoPath /= <<>>

\* line 95: if (options.connectTo && options.video)
IncompatibleOptions == opt.connectTo /= <<>> /\ opt.video

\* lines 83-107: url from the query, missing url, incompatible options
CheckOptions ==
  /\ pc = "options"
  /\ LET u == Coalesce(opt.urlq[1], opt.urlq[2]) IN
     IF u = <<>>
     THEN /\ emitted' = Append(emitted, Msg("Please provide a URL", "-"))
          /\ pc' = "done"
          /\ UNCHANGED <<url, failed>>
     ELSE IF IncompatibleOptions
     THEN /\ emitted' = Append(emitted, Msg("Playwright check error", "validate"))
          /\ failed' = failed \cup {"validate"}
          /\ pc' = "done"
          /\ url' = u
     ELSE /\ url' = u
          /\ pc' = IF opt.connectTo /= <<>> THEN "connect" ELSE "launch"
          /\ UNCHANGED <<emitted, failed>>
  /\ UNCHANGED <<request, session, waitConfig, timers, calls>>

\* ------------------------------------------------- acquisition: connect mode
\* lines 118-122
ConnectOverCDP ==
  /\ pc = "connect"
  /\ LET em == Append(emitted, Msg("Connecting to existing Chrome instance", "-"))
         cs == Append(calls, Call("connectOverCDP", opt.connectTo))
     IN \/ /\ browser' = "connected"
           /\ Proceed("connContext", em, cs)
        \/ /\ Caught("connectOverCDP", em, cs)
           /\ UNCHANGED browser
  /\ UNCHANGED <<request, url, context, pages, page, videoPath, waitConfig>>

\* lines 123-137: browser.contexts()[0] || browser.newContext(...)
ConnectContext ==
  /\ pc = "connContext"
  /\ \/ \E ps \in PageLists :
          /\ context' = "existing"
          /\ pages' = ps
          /\ Proceed("connPage", emitted, calls)
     \/ LET cs == Append(calls, Call("newContext", <<opt.video>>)) IN
        \/ /\ context' = "new"
           /\ pages' = <<>>
           /\ Proceed("connPage", emitted, cs)
        \/ /\ Caught("newContext", emitted, cs)
           /\ UNCHANGED <<context, pages>>
  /\ UNCHANGED <<request, url, browser, page, videoPath, waitConfig>>

\* mutant of FindPage: pages[0] is taken whatever its URL
FindPageFirst(ps) == 1

\* pages.find((p) => !p.url().startsWith('chrome://')) || pages[pages.length - 1]
FindPage(ps) ==
  IF \E i \in 1..Len(ps) : ~StartsWith(ps[i], ChromeScheme)
  THEN CHOOSE i \in 1..Len(ps) :
         /\ ~StartsWith(ps[i], ChromeScheme)
         /\ \A j \in 1..(i - 1) : StartsWith(ps[j], ChromeScheme)
  ELSE Len(ps)

\* lines 139-152
ConnectPage ==
  /\ pc = "connPage"
  /\ IF Len(pages) > 0
     THEN /\ page' = <<"existing", FindPage(pages)>>
          /\ Proceed("connViewport", Append(emitted, Msg("Using existing page...", "-")), calls)
     ELSE LET cs == Append(calls, Call("newPage", <<>>)) IN
          \/ /\ page' = <<"new", 0>>
             /\ Proceed("connViewport", emitted, cs)
          \/ /\ Caught("newPage", emitted, cs)
             /\ UNCHANGED page
  /\ UNCHANGED <<request, url, browser, context, pages, videoPath, waitConfig>>

\* mutant of AfterAcquisition: the collectors are not attached before navigation
AfterAcquisitionNavigates == "navigate"

\* lines 206-212: the collectors are attached right after either acquisition branch
AfterAcquisition == "console"

\* lines 154-161
ConnectViewport ==
  /\ pc = "connViewport"
  /\ IF opt.viewport /= <<>> /\ ViewportValid(opt.viewport[1])
     THEN LET cs == Append(calls, Call("setViewportSize", opt.viewport)) IN
          \/ Proceed(AfterAcquisition, emitted, cs)
          \/ Caught("setViewportSize", emitted, cs)
     ELSE Proceed(AfterAcquisition, emitted, calls)
  /\ UNCHANGED <<request, url, session, waitConfig>>

\* -------------------------------------------------- acquisition: launch mode
\* lines 163-169
Launch ==
  /\ pc = "launch"
  /\ LET em == Append(emitted, Msg("Launching browser...", "-"))
         cs == Append(calls, Call("launch", <<>>))
     IN \/ /\ browser' = "launched"
           /\ Proceed("setupVideo", em, cs)
        \/ /\ Caught("launch", em, cs)
           /\ UNCHANGED browser
  /\ UNCHANGED <<request, url, context, pages, page, videoPath, waitConfig>>

\* the path setupVideoRecording(options) resolves to: one when video was
\* requested, undefined otherwise
setupVideoRecording(video) == IF video THEN <<"video-dir">> ELSE <<>>

\* lines 171-174
SetupVideo ==
  /\ pc = "setupVideo"
  /\ LET cs == Append(calls, Call("setupVideoRecording", <<opt.video>>)) IN
     \/ /\ videoPath' = setupVideoRecording(opt.video)
        /\ Proceed("newContext", emitted, cs)
     \/ /\ Caught("setupVideoRecording", emitted, cs)
        /\ UNCHANGED videoPath
  /\ UNCHANGED <<request, url, browser, context, pages, page, waitConfig>>

\* lines 175-187
NewContext ==
  /\ pc = "newContext"
  /\ LET cs == Append(calls, Call("newContext", <<opt.video>>)) IN
     \/ /\ context' = "new"
        /\ Proceed("newPage", emitted, cs)
     \/ /\ Caught("newContext", emitted, cs)
        /\ UNCHANGED context
  /\ UNCHANGED <<request, url, browser, pages, page, videoPath, waitConfig>>

\* line 188
NewPage ==
  /\ pc = "newPage"
  /\ LET cs == Append(calls, Call("newPage", <<>>)) IN
     \/ /\ page' = <<"new", 0>>
        /\ Proceed("viewport", emitted, cs)
     \/ /\ Caught("newPage", emitted, cs)
        /\ UNCHANGED page
  /\ UNCHANGED <<request, url, browser, context, pages, videoPath, waitConfig>>

\* lines 190-203
LaunchViewport ==
  /\ pc = "viewport"
  /\ IF opt.viewport /= <<>>
     THEN IF ViewportValid(opt.viewport[1])
          THEN LET cs == Append(calls, Call("setViewportSize", opt.viewport)) IN
               \/ Proceed(AfterAcquisition, emitted, cs)
               \/ Caught("setViewportSize", emitted, cs)
          ELSE Proceed(AfterAcquisition, Append(emitted, Msg("Invalid viewport format", "-")), calls)
     ELSE IF cfg.defaultViewport /= <<>> /\ ViewportValid(cfg.defaultViewport[1])
          THEN LET cs == Append(calls, Call("setViewportSize", cfg.defaultViewport)) IN
               \/ Proceed(AfterAcquisition, emitted, cs)
               \/ Caught("setViewportSize", emitted, cs)
          ELSE Proceed(AfterAcquisition, emitted, calls)
  /\ UNCHANGED <<request, url, session, waitConfig>>

\* ---------------------------------------------------------------- collectors
\* line 212
SetupConsole ==
  /\ pc = "console"
  /\ LET cs == Append(calls, Call("setupConsoleLogging", <<>>)) IN
     \/ Proceed("network", emitted, cs)
     \/ Caught("setupConsoleLogging", emitted, cs)
  /\ UNCHANGED <<request, url, session, waitConfig>>

\* line 214
SetupNetwork ==
  /\ pc = "network"
  /\ LET cs == Append(calls, Call("setupNetworkMonitoring", <<>>)) IN
     \/ Proceed("navigate", emitted, cs)
     \/ Caught("setupNetworkMonitoring", emitted, cs)
  /\ UNCHANGED <<request, url, session, waitConfig>>

\* ---------------------------------------------------------------- navigation
\* mutant of UseCurrentPage: the mode test is negated
UseCurrentPageWhenLaunched == url[1] = "current" /\ opt.connectTo = <<>>

\* line 218: url === 'current' && options.connectTo
UseCurrentPage == url[1] = "current" /\ opt.connectTo /= <<>>

\* lines 217-229
Navigate ==
  /\ pc = "navigate"
  /\ IF UseCurrentPage
     THEN Proceed("wait", Append(emitted, Msg("Using current page at", "-")), calls)
     ELSE IF url[1] = "reload-current" /\ opt.connectTo /= <<>>
     THEN LET em == Append(emitted, Msg("Reloading current page at", "-"))
              cs == Append(calls, Call("reload", EffectiveTimeout))
          IN \/ Proceed("wait", em, cs)
             \/ Caught("reload", em, cs)
     ELSE LET em == Append(emitted, Msg("Navigating to", "-"))
              cs == Append(calls, Call("goto", EffectiveTimeout))
          IN \/ Proceed("networkidle", em, cs)
             \/ Caught("goto", em, cs)
  /\ UNCHANGED <<request, url, session, waitConfig>>

\* mutant of QuiescenceTimeout: no local try/catch around waitForLoadState
QuiescenceFatal(em, cs) == Caught("waitForLoadState", em, cs)

\* lines 235-238: the local catch around waitForLoadState
QuiescenceTimeout(em, cs) ==
  /\ calls' = cs
  /\ emitted' = Append(em, Msg("Timed out waiting for networkidle", "-"))
  /\ failed' = failed \cup {"waitForLoadState"}
  /\ pc' = "wait"
  /\ UNCHANGED timers

\* lines 230-240: a failed networkidle wait is caught locally
WaitNetworkIdle ==
  /\ pc = "networkidle"
  /\ LET em == Append(emitted, Msg("Page loaded, waiting for networkidle...", "-"))
         cs == Append(calls, Call("waitForLoadState", EffectiveTimeout))
     IN \/ Proceed("wait", em, cs)
        \/ QuiescenceTimeout(em, cs)
  /\ UNCHANGED <<request, url, session, waitConfig>>

\* ------------------------------------------------------------ wait directive
\* what line 251 leaves in the timeouts array: the handle setTimeout returns
\* is dropped, nothing is pushed
TimeoutsAfterSetTimeout(ts, handle) == ts

\* mutant of AwaitTimer: the promise of line 251 is not awaited
NoAwaitTimer == "output"

\* line 251 awaits the promise the timer resolves
AwaitTimer == "timedWait"

\* mutant of WaitError: no local try/catch around the wait directive
WaitFatal(step, em, cs) == Caught(step, em, cs)

\* lines 258-260: the local catch around the wait directive
WaitError(step, em, cs) ==
  /\ calls' = cs
  /\ emitted' = Append(em, Msg("Wait error", step))
  /\ failed' = failed \cup {step}
  /\ pc' = "output"
  /\ UNCHANGED timers

\* lines 242-261
WaitDirective ==
  /\ pc = "wait"
  /\ IF opt.wait = <<>> \/ opt.wait[1] = <<>>
     THEN /\ Proceed("output", emitted, calls)
          /\ UNCHANGED waitConfig
     ELSE LET wc == parseWaitParameter(opt.wait[1])
              cs == Append(calls, Call("parseWaitParameter", <<>>))
          IN /\ waitConfig' = <<wc>>
             /\ CASE wc.type = "throw" ->
                       WaitError("parseWaitParameter", emitted, cs)
                  [] wc.type = "time" ->
                       LET handle == Cardinality(pendingTimers) + 1 IN
                       /\ calls' = Append(cs, Call("setTimeout", <<wc.ms>>))
                       /\ pendingTimers' = pendingTimers \cup {handle}
                       /\ timeouts' = TimeoutsAfterSetTimeout(timeouts, handle)
                       /\ pc' = AwaitTimer
                       /\ UNCHANGED <<emitted, failed>>
                  [] wc.type = "selector" ->
                       LET cs2 == Append(cs, Call("waitForSelector", EffectiveTimeout)) IN
                       \/ Proceed("output", emitted, cs2)
                       \/ WaitError("waitForSelector", emitted, cs2)
  /\ UNCHANGED <<request, url, session>>

\* the timer of line 251 fires and resolves the awaited promise
TimerFired ==
  /\ pc = "timedWait"
  /\ \E handle \in pendingTimers :
        pendingTimers' = pendingTimers \ {handle}
  /\ pc' = "output"
  /\ UNCHANGED <<request, url, session, waitConfig, timeouts, calls, emitted, failed>>

\* ------------------------------------------------------------------ capture
RECURSIVE Repeat(_, _)
Repeat(x, n) == IF n = 0 THEN <<>> ELSE Append(Repeat(x, n - 1), x)

\* lines 263-272: pending timeouts cleared, then the collected messages
OutputDiagnostics ==
  /\ pc = "output"
  /\ pendingTimers' = clearTimeout(pendingTimers, timeouts)
  /\ timeouts' = <<>>
  /\ LET cs == Append(calls, Call("outputMessages", <<>>)) IN
     \/ \E n \in 0..MaxDiag :
          /\ calls' = cs
          /\ emitted' = emitted \o Repeat(Msg("diagnostics", "-"), n)
          /\ pc' = "html"
          /\ UNCHANGED failed
     \/ /\ calls' = cs
        /\ failed' = failed \cup {"outputMessages"}
        /\ emitted' = Append(emitted, Msg("Browser command error", "outputMessages"))
        /\ pc' = "finally"
  /\ UNCHANGED <<request, url, session, waitConfig>>

\* lines 274-280
HtmlDump ==
  /\ pc = "html"
  /\ IF opt.html = <<TRUE>>
     THEN LET cs == Append(calls, Call("content", <<>>)) IN
          \/ Proceed("screenshot",
                     emitted \o <<Msg("--- Page HTML Content ---", "-"),
                                  Msg("html", "-"),
                                  Msg("--- End of HTML Content ---", "-")>>, cs)
          \/ Caught("content", emitted, cs)
     ELSE Proceed("screenshot", emitted, calls)
  /\ UNCHANGED <<request, url, session, waitConfig>>

\* lines 282-287
Screenshot ==
  /\ pc = "screenshot"
  /\ LET cs == Append(calls, Call("captureScreenshot", <<>>)) IN
     \/ Proceed("finally",
                IF opt.screenshot /= <<>>
                THEN Append(emitted, Msg("Screenshot saved to", "-")) ELSE emitted, cs)
     \/ Caught("captureScreenshot", emitted, cs)
  /\ UNCHANGED <<request, url, session, waitConfig>>

\* ------------------------------------------------------------------ cleanup
\* mutant of RecordingStarted: the page test is negated
RecordingStartedNoPage == videoPath /= <<>> /\ page[1] = "null"

\* line 302: if (videoPath && page)
RecordingStarted == videoPath /= <<>> /\ page[1] /= "null"

\* lines 295-300, and the choice of line 302
Finally ==
  /\ pc = "finally"
  /\ pendingTimers' = clearTimeout(pendingTimers, timeouts)
  /\ timeouts' = <<>>
  /\ pc' = IF RecordingStarted THEN "stopVideo" ELSE "close"
  /\ UNCHANGED <<request, url, session, waitConfig, calls, emitted, failed>>

\* lines 303-306: runs inside the finally block, so an error escapes to the
\* outer catch
StopVideo ==
  /\ pc = "stopVideo"
  /\ LET cs == Append(calls, Call("stopVideoRecording", <<>>)) IN
     \/ /\ calls' = cs
        /\ emitted' = Append(emitted, Msg("Video saved to", "-"))
        /\ pc' = "close"
        /\ UNCHANGED failed
     \/ /\ calls' = cs
        /\ pc' = "close"
        /\ UNCHANGED <<emitted, failed>>
     \/ Escaped("stopVideoRecording", emitted, cs)
  /\ UNCHANGED <<request, url, session, waitConfig, timers>>

\* mutant of OwnsBrowser: the acquisition mode is not consulted
OwnsBrowserAnyMode == browser /= "undefined"

\* line 308: if (browser && !options.connectTo)
OwnsBrowser == browser /= "undefined" /\ opt.connectTo = <<>>

\* lines 308-313
CloseBrowser ==
  /\ pc = "close"
  /\ LET cs == Append(calls, Call("browser.close", <<>>)) IN
     IF OwnsBrowser
     THEN \/ /\ calls' = cs
             /\ emitted' = Append(emitted, Msg("Browser closed.", "-"))
             /\ pc' = "done"
             /\ UNCHANGED failed
          \/ Escaped("browser.close", emitted, cs)
     ELSE IF opt.connectTo /= <<>> /\ browser /= "undefined"
     THEN \/ /\ calls' = cs
             /\ pc' = "done"
             /\ UNCHANGED <<emitted, failed>>
          \/ Escaped("browser.close", emitted, cs)
     ELSE /\ pc' = "done"
          /\ UNCHANGED <<calls, emitted, failed>>
  /\ UNCHANGED <<request, url, session, waitConfig, timers>>

\* ------------------------------------------------------------ specification
Next ==
  \/ EnsurePlaywright
  \/ EnsurePlaywrightBrowsers
  \/ CheckOptions
  \/ ConnectOverCDP
  \/ ConnectContext
  \/ ConnectPage
  \/ ConnectViewport
  \/ Launch
  \/ SetupVideo
  \/ NewContext
  \/ NewPage
  \/ LaunchViewport
  \/ SetupConsole
  \/ SetupNetwork
  \/ Navigate
  \/ WaitNetworkIdle
  \/ WaitDirective
  \/ TimerFired
  \/ OutputDiagnostics
  \/ HtmlDump
  \/ Screenshot
  \/ Finally
  \/ StopVideo
  \/ CloseBrowser

Spec == Init /\ [][Next]_vars

\* ------------------------------------------------------ vocabulary of claims
CallOps == {calls[i][1] : i \in 1..Len(calls)}
Called(op) == op \in CallOps
Labels == {emitted[i][1] : i \in 1..Len(emitted)}
Done == pc = "done"
LaunchMode == opt.connectTo = <<>>
LaunchSucceeded == LaunchMode /\ Called("launch") /\ "launch" \notin failed
ConnectSucceeded == ~LaunchMode /\ Called("connectOverCDP") /\ "connectOverCDP" \notin failed
\* videoPath set and page created
VideoStarted == videoPath /= <<>> /\ page[1] /= "null"
\* the generator has left the inner try block
PastCapture == pc \in {"finally", "stopVideo", "close", "done"}
\* diagnostics, HTML dump and screenshot were each executed, unless one of
\* these capture steps itself threw and so cut the later ones short
CaptureRan ==
  /\ Called("outputMessages")
  /\ opt.html = <<TRUE>> /\ "outputMessages" \notin failed => Called("content")
  /\ {"outputMessages", "content"} \cap failed = {} => Called("captureScreenshot")

\* C1: in launch mode, once chromium.launch has succeeded, browser.close()
\* has been invoked by the time the generator completes.
C1_LaunchedBrowserIsClosed ==
  Done /\ LaunchSucceeded => Called("browser.close")

\* C2: a capture failure never prevents cleanup: with a recording started in
\* launch mode, a failing stopVideoRecording is still followed by
\* browser.close(), and a failing captureScreenshot or page.content() is still
\* followed by video finalization and browser.close().
C2_CaptureFailureKeepsCleanup ==
  Done /\ LaunchSucceeded =>
    /\ VideoStarted /\ "stopVideoRecording" \in failed => Called("browser.close")
    /\ {"captureScreenshot", "content"} \cap failed /= {} =>
         /\ VideoStarted => Called("stopVideoRecording")
         /\ Called("browser.close")

\* C3: whenever a recording was started, stopVideoRecording is invoked before
\* browser.close(): every browser.close() call is preceded by a
\* stopVideoRecording call, and no execution leaves the cleanup without having
\* invoked stopVideoRecording.
C3_VideoFinalizedBeforeClose ==
  VideoStarted =>
    /\ \A j \in 1..Len(calls) :
         calls[j][1] = "browser.close" =>
           \E i \in 1..(j - 1) : calls[i][1] = "stopVideoRecording"
    /\ pc \in {"close", "done"} => Called("stopVideoRecording")

C3_Witness ==
  Done /\ VideoStarted /\ Called("browser.close") /\ "captureScreenshot" \in failed

\* C4: in connect mode the cleanup only closes the connection handle: the
\* message 'Browser closed.' is never emitted, no page or context is closed
\* and stopVideoRecording is never invoked.
C4_ConnectCleanupOnlyReleasesHandle ==
  ~LaunchMode =>
    /\ "Browser closed." \notin Labels
    /\ CallOps \cap {"stopVideoRecording", "page.close", "context.close"} = {}

C4_Witness ==
  Done /\ ConnectSucceeded /\ Called("browser.close") /\ failed = {}

\* C5: when execute completes, on whichever path, the timeouts array is empty
\* and no timer scheduled during the execution (so none that was registered
\* in the array) is still pending: each has fired or was cancelled.
C5_NoTimerOutlivesExecute ==
  Done => timeouts = <<>> /\ pendingTimers = {}

C5_Witness ==
  Done /\ Called("setTimeout") /\ "captureScreenshot" \in failed /\ timeouts = <<>>

\* C6: while execute is suspended on a timed wait, the handle of the timer it
\* scheduled is a member of the timeouts array.
C6_PendingTimerIsRegistered ==
  pc = "timedWait" => pendingTimers /= {} /\ pendingTimers \subseteq Range(timeouts)

\* C7: a request with both connectTo and video never reaches acquisition or
\* navigation (no connectOverCDP, launch, collector attachment, goto or reload
\* call) and ends with a single error message; when the pre-checks pass and a
\* URL is given that message reports the option conflict.
C7_VideoWithConnectAborts ==
  opt.connectTo /= <<>> /\ opt.video =>
    /\ CallOps \cap {"connectOverCDP", "launch", "setupConsoleLogging",
                     "setupNetworkMonitoring", "goto", "reload"} = {}
    /\ PastCapture => pc = "done"
    /\ Done =>
         /\ Len(emitted) = 1
         /\ emitted[1][1] \in {"Playwright check error", "Please provide a URL"}
         /\ Called("ensurePlaywrightBrowsers") /\ failed \cap {"ensurePlaywright", "ensurePlaywrightBrowsers"} = {}
              /\ Coalesce(opt.urlq[1], opt.urlq[2]) /= <<>>
            => emitted[1] = Msg("Playwright check error", "validate")

C7_Witness ==
  Done /\ opt.connectTo /= <<>> /\ opt.video /\ "validate" \in failed

\* C8: in launch mode, whenever the browser was launched, 'Browser closed.'
\* is the last item emitted by execute.
C8_BrowserClosedIsLast ==
  Done /\ LaunchSucceeded =>
    emitted /= <<>> /\ emitted[Len(emitted)][1] = "Browser closed."

\* C9: a failed or timed-out waitForLoadState('networkidle') does not abort
\* the operation: the timeout notice is emitted, no 'Browser command error'
\* reports it, and the wait directive, diagnostics output, HTML dump (if
\* enabled) and screenshot are still executed.
C9_QuiescenceFailureIsNotFatal ==
  "waitForLoadState" \in failed =>
    /\ "Timed out waiting for networkidle" \in Labels
    /\ Msg("Browser command error", "waitForLoadState") \notin Range(emitted)
    /\ pc /= "wait" /\ opt.wait /= <<>> => Called("parseWaitParameter")
    /\ PastCapture => CaptureRan

C9_Witness ==
  /\ Done /\ failed = {"waitForLoadState"}
  /\ opt.html = <<TRUE>> /\ Called("content") /\ Called("captureScreenshot")
  /\ Called("waitForSelector")

\* C10: a wait-directive failure (parseWaitParameter throwing, waitForSelector
\* failing) is reported as a 'Wait error' message and does not abort the run:
\* no 'Browser command error' reports it, and diagnostics output, HTML dump
\* (if enabled) and screenshot are still executed afterwards.
C10_WaitFailureIsNotFatal ==
  \A step \in {"parseWaitParameter", "waitForSelector"} :
    step \in failed =>
      /\ Msg("Wait error", step) \in Range(emitted)
      /\ Msg("Browser command error", step) \notin Range(emitted)
      /\ PastCapture => CaptureRan

C10_Witness ==
  /\ Done /\ failed = {"parseWaitParameter"}
  /\ opt.html = <<TRUE>> /\ Called("content") /\ Called("captureScreenshot")

\* ---------------------------------------------------- more claim vocabulary
CallCount(op) == Cardinality({i \in 1..Len(calls) : calls[i][1] = op})
RequestedUrl == Coalesce(opt.urlq[1], opt.urlq[2])
PreChecks == {"ensurePlaywright", "ensurePlaywrightBrowsers"}
\* some emitted message reports the failure of step
Reported(step) ==
  \/ \E i \in 1..Len(emitted) : emitted[i][2] = step
  \/ step = "waitForLoadState" /\ "Timed out waiting for networkidle" \in Labels

\* C11: when page.goto or page.reload fails, the remaining navigation steps
\* are skipped and an error is reported, but diagnostics output, HTML dump and
\* screenshot, and the cleanup, still execute.
C11_NavigationFailureKeepsCapture ==
  \A step \in {"goto", "reload"} :
    step \in failed /\ PastCapture =>
      /\ CallOps \cap {"waitForLoadState", "parseWaitParameter"} = {}
      /\ Reported(step)
      /\ CaptureRan
      /\ Done /\ browser /= "undefined" => Called("browser.close")

\* C12: no error escapes execute: whichever collaborator call fails, at
\* whichever step, the generator is never left by a throw, it can always run
\* on to its normal completion, and an emitted message reports the failure.
C12_NoErrorEscapes ==
  /\ pc /= "thrown"
  /\ pc /= "done" => ENABLED Next
  /\ \A step \in failed : Reported(step)

C12_Witness ==
  /\ Done /\ "browser.close" \in failed
  /\ emitted[Len(emitted)] = Msg("Playwright check error", "browser.close")

\* C13: when an availability pre-check fails, the failure is reported and
\* nothing else is attempted: no connect, launch, context or page creation,
\* navigation, capture or close call is made.
C13_FailedPreCheckStopsEverything ==
  \A step \in PreChecks :
    step \in failed =>
      /\ Done
      /\ emitted = <<Msg("Playwright check error", step)>>
      /\ CallOps \subseteq PreChecks

C13_Witness ==
  Done /\ "ensurePlaywrightBrowsers" \in failed /\ Called("ensurePlaywright")

\* C14: at completion stopVideoRecording has been invoked exactly once if a
\* recording was started and never otherwise, and browser.close() exactly
\* once if a browser handle was acquired and never otherwise.
C14_ReleasedExactlyOnce ==
  Done =>
    /\ CallCount("stopVideoRecording") = (IF VideoStarted THEN 1 ELSE 0)
    /\ CallCount("browser.close") = (IF browser /= "undefined" THEN 1 ELSE 0)

\* C15: with url 'current' in connect mode nothing navigates: page.goto and
\* page.reload are never invoked, 'Using current page at <url>...' is emitted
\* once the collectors are attached, and the wait directive and the capture
\* steps go on from there.
C15_CurrentPageIsNotNavigated ==
  RequestedUrl = <<"current">> /\ ~LaunchMode =>
    /\ CallOps \cap {"goto", "reload", "waitForLoadState"} = {}
    /\ Called("setupNetworkMonitoring") /\ "setupNetworkMonitoring" \notin failed
         /\ pc /= "navigate"
       => "Using current page at" \in Labels
    /\ "Using current page at" \in Labels =>
         /\ pc /= "wait" /\ opt.wait /= <<>> => Called("parseWaitParameter")
         /\ PastCapture => CaptureRan

C15_Witness ==
  /\ Done /\ RequestedUrl = <<"current">> /\ ~LaunchMode /\ failed = {}
  /\ "Using current page at" \in Labels
  /\ Called("parseWaitParameter") /\ Called("captureScreenshot")

\* C16: the steps run in order: the page is acquired before a collector is
\* attached, both collectors are attached before goto or reload is issued,
\* navigation and the wait directive are over before diagnostics output, HTML
\* retrieval or screenshot begin, and the emitted messages follow that order.
CallPhase(op) ==
  CASE op \in PreChecks -> 0
    [] op \in {"connectOverCDP", "launch", "setupVideoRecording", "newContext",
               "newPage", "setViewportSize"} -> 1
    [] op \in {"setupConsoleLogging", "setupNetworkMonitoring"} -> 2
    [] op \in {"goto", "reload", "waitForLoadState", "parseWaitParameter",
               "setTimeout", "waitForSelector"} -> 3
    [] op \in {"outputMessages", "content", "captureScreenshot"} -> 4
    [] OTHER -> 5

MsgPhase(label) ==
  CASE label \in {"Connecting to existing Chrome instance", "Using existing page...",
                  "Launching browser...", "Invalid viewport format"} -> 1
    [] label \in {"Using current page at", "Reloading current page at", "Navigating to",
                  "Page loaded, waiting for networkidle...",
                  "Timed out waiting for networkidle", "Wait error"} -> 3
    [] label \in {"diagnostics", "--- Page HTML Content ---", "html",
                  "--- End of HTML Content ---", "Screenshot saved to"} -> 4
    [] OTHER -> 5

C16_StepsRunInOrder ==
  /\ \A i \in 1..(Len(calls) - 1) :
       CallPhase(calls[i][1]) <= CallPhase(calls[i + 1][1])
  /\ \A i \in 1..(Len(emitted) - 1) :
       MsgPhase(emitted[i][1]) <= MsgPhase(emitted[i + 1][1])
  /\ Called("setupConsoleLogging") => page[1] /= "null"
  /\ Called("goto") \/ Called("reload") =>
       /\ {"setupConsoleLogging", "setupNetworkMonitoring"} \subseteq CallOps
       /\ {"setupConsoleLogging", "setupNetworkMonitoring"} \cap failed = {}
  /\ Called("outputMessages") => pendingTimers = {}

C16_Witness ==
  /\ Done /\ failed = {} /\ LaunchMode
  /\ Called("setViewportSize") /\ Called("goto") /\ Called("setTimeout")
  /\ Called("content") /\ Called("captureScreenshot")

\* C17: connect-mode page selection.  The page used is the first existing
\* page whose URL does not start with 'chrome://'.
PageChosen == ~LaunchMode /\ page[1] /= "null"
Internal(i) ==
  /\ Len(pages[i]) >= 9
  /\ SubSeq(pages[i], 1, 9) = <<"c", "h", "r", "o", "m", "e", ":", "/", "/">>
FirstExternal == CHOOSE i \in 1..Len(pages) : ~Internal(i) /\ \A j \in 1..(i - 1) : Internal(j)
AllInternal == \A i \in 1..Len(pages) : Internal(i)

\* C17 as stated: when every existing page is internal, or there is none, a
\* new page is created via context.newPage().
C17_AllInternalCreatesNewPage ==
  PageChosen =>
    IF ~AllInternal THEN page = <<"existing", FirstExternal>>
    ELSE page = <<"new", 0>> /\ Called("newPage")

\* C17 amended: when every existing page is internal the last existing page
\* is used and no page is created; a new page is created via
\* context.newPage() only when the context has no page at all.
C17_AllInternalUsesLastPage ==
  PageChosen =>
    IF ~AllInternal THEN page = <<"existing", FirstExternal>> /\ ~Called("newPage")
    ELSE IF Len(pages) > 0 THEN page = <<"existing", Len(pages)>> /\ ~Called("newPage")
    ELSE page = <<"new", 0>> /\ Called("newPage")

C17_Witness ==
  PageChosen /\ Len(pages) = 2 /\ AllInternal /\ page = <<"existing", 2>>

\* C18: a 'Playwright check error' message is emitted only when an
\* availability pre-check (ensurePlaywright, ensurePlaywrightBrowsers) failed.
C18_CheckErrorOnlyForPreChecks ==
  \A i \in 1..Len(emitted) :
    emitted[i][1] = "Playwright check error" => emitted[i][2] \in PreChecks

\* C20: every timed step (page.reload, page.goto, the networkidle wait,
\* waitForSelector) is passed the same timeout: the request's if it gave one,
\* else the configured browser timeout if there is one, else 30000 ms.
ResolvedTimeout ==
  IF opt.timeout /= <<>> THEN opt.timeout[1]
  ELSE IF cfg.timeout /= <<>> THEN cfg.timeout[1]
  ELSE 30000

C20_OneEffectiveTimeout ==
  \A i \in 1..Len(calls) :
    calls[i][1] \in {"reload", "goto", "waitForLoadState", "waitForSelector"} =>
      calls[i][2] = <<ResolvedTimeout>>

C20_Witness ==
  /\ Done /\ opt.timeout /= <<>> /\ cfg.timeout /= <<>>
  /\ Called("goto") /\ Called("waitForLoadState") /\ Called("waitForSelector")

\* ------------------------------------------- parseWaitParameter on its own
\* wait strings: a prefix followed by up to MaxLen characters
ParseAlphabet == {"0", "2", "m", "s", ":", "#", "."}
ParsePrefixes == {<<>>, TimePrefix, SelectorPrefix, CssPrefix, <<"t", "i", "m", "e">>}
ParseInputs == {p \o t : p \in ParsePrefixes, t \in SeqsUpTo(ParseAlphabet, MaxLen)}

ParseInit ==
  /\ pc = "parse"
  /\ \E w \in ParseInputs :
       opt = [urlq |-> <<<<ExampleUrl>>, <<>>>>, connectTo |-> <<>>, video |-> FALSE,
              html |-> <<>>, screenshot |-> <<>>, wait |-> <<w>>,
              viewport |-> <<>>, timeout |-> <<>>]
  /\ cfg = [timeout |-> <<>>, defaultViewport |-> <<>>]
  /\ url = <<>>
  /\ browser = "undefined"
  /\ context = "undefined"
  /\ pages = <<>>
  /\ page = <<"null", 0>>
  /\ videoPath = <<>>
  /\ waitConfig = <<>>
  /\ timeouts = NewTimeouts
  /\ pendingTimers = {}
  /\ calls = <<>>
  /\ emitted = <<>>
  /\ failed = {}

\* line 245: const waitConfig = parseWaitParameter(options.wait)
ParseWait ==
  /\ pc = "parse"
  /\ waitConfig' = <<parseWaitParameter(opt.wait[1])>>
  /\ pc' = "parsed"
  /\ UNCHANGED <<request, url, session, timers, calls, emitted, failed>>

ParseNext == ParseWait

ParseSpec == ParseInit /\ [][ParseNext]_vars

\* the five-step priority algorithm, written from its description
RefDigit(c) == CHOOSE n \in 0..9 : <<"0", "1", "2", "3", "4", "5", "6", "7", "8", "9">>[n + 1] = c
RECURSIVE Pow10(_)
Pow10(n) == IF n = 0 THEN 1 ELSE 10 * Pow10(n - 1)
RECURSIVE DecimalFrom(_, _)
DecimalFrom(s, i) ==
  IF i > Len(s) THEN 0 ELSE RefDigit(s[i]) * Pow10(Len(s) - i) + DecimalFrom(s, i + 1)
RefUnits == {<<"m", "s">>, <<"s">>, <<"m">>}
RefSplits(s) ==
  {k \in 1..(Len(s) - 1) :
     /\ \A i \in 1..k : s[i] \in {"0", "1", "2", "3", "4", "5", "6", "7", "8", "9"}
     /\ SubSeq(s, k + 1, Len(s)) \in RefUnits}
IsDurationText(s) == RefSplits(s) /= {}
DurationMs(s) ==
  LET k == CHOOSE k \in RefSplits(s) : TRUE
      unit == SubSeq(s, k + 1, Len(s))
      n == DecimalFrom(SubSeq(s, 1, k), 1)
  IN IF unit = <<"m", "s">> THEN n ELSE IF unit = <<"s">> THEN n * 1000 ELSE n * 60000
HasPrefix(s, p) == Len(s) >= Len(p) /\ \A i \in 1..Len(p) : s[i] = p[i]
AfterFirstColon(s) ==
  LET c == CHOOSE i \in 1..Len(s) : s[i] = ":" /\ \A j \in 1..(i - 1) : s[j] /= ":"
  IN [i \in 1..(Len(s) - c) |-> s[c + i]]
ExpectedDirective(w) ==
  IF HasPrefix(w, <<"t", "i", "m", "e", ":">>)
  THEN LET rest == [i \in 1..(Len(w) - 5) |-> w[5 + i]] IN
       IF IsDurationText(rest)
       THEN [type |-> "time", ms |-> DurationMs(rest), selector |-> <<>>]
       ELSE [type |-> "throw", ms |-> 0, selector |-> w]
  ELSE IF HasPrefix(w, <<"s", "e", "l", "e", "c", "t", "o", "r", ":">>)
          \/ HasPrefix(w, <<"c", "s", "s", ":">>)
  THEN [type |-> "selector", ms |-> 0, selector |-> AfterFirstColon(w)]
  ELSE IF IsDurationText(w)
  THEN [type |-> "time", ms |-> DurationMs(w), selector |-> <<>>]
  ELSE [type |-> "selector", ms |-> 0, selector |-> w]

\* C19: parseWaitParameter agrees with the five-step priority algorithm on
\* every input string, and rejects none that lacks the 'time:' prefix.
C19_ParserFollowsPriorityAlgorithm ==
  pc = "parsed" =>
    /\ waitConfig[1] = ExpectedDirective(opt.wait[1])
    /\ ~HasPrefix(opt.wait[1], <<"t", "i", "m", "e", ":">>) => waitConfig[1].type /= "throw"

C19_Witness ==
  /\ pc = "parsed"
  /\ opt.wait[1] = <<"c", "s", "s", ":", "#", "2", "s">>
  /\ waitConfig[1] = [type |-> "selector", ms |-> 0, selector |-> <<"#", "2", "s">>]
====
